---- MODULE Spec2Model ----
(***************************************************************************)
(* A model of backend/server.py (Clean Air Routes API): the pollutant      *)
(* sampler fetch_tempo_data, the corridor selector                         *)
(* find_intermediate_cities, the route builder                             *)
(* calculate_routes_with_pollution and the HTTP handlers around them and   *)
(* around the saved_routes collection.                                     *)
(*                                                                         *)
(* Numbers are fixed point.  Coordinates are in hundredths of a degree.    *)
(* Inside fetch_tempo_data no2, o3, so2 and co2 are in thousandths,        *)
(* methane and aqi in ten-thousandths; a PollutantData holds what round()  *)
(* leaves: no2, o3, so2, co2 in hundredths, methane in thousandths, aqi in *)
(* tenths.  Quotients that the code keeps as floats (averages, scores) are *)
(* kept as exact fractions and compared by cross-multiplication.           *)
(***************************************************************************)
EXTENDS Integers, Sequences, FiniteSets, TLC

VARIABLES
    store,       \* db.saved_routes: the documents in insertion order
    resp,        \* the outcome of the last handler call
    sampled,     \* the PollutantData the last handler got from fetch_tempo_data, in call order
    allowExtra,  \* whether the installed BaseModel accepts an undeclared attribute (line 334)
    deleted      \* history: the ids delete_saved_route removed a record of, not saved since

vars == <<store, resp, sampled, allowExtra, deleted>>

----------------------------------------------------------------------------
(* Arithmetic helpers *)

Abs(x) == IF x < 0 THEN 0 - x ELSE x

Min(a, b) == IF a <= b THEN a ELSE b

Max(a, b) == IF a >= b THEN a ELSE b

\* Python's round(): x/q to the nearest integer, a tie going to the even one.
Round(x, q) ==
    LET f == x \div q
        r == x % q
    IN  IF 2 * r < q THEN f
        ELSE IF 2 * r > q THEN f + 1
        ELSE IF f % 2 = 0 THEN f ELSE f + 1

RECURSIVE SqrtSearch(_, _, _)
SqrtSearch(n, lo, hi) ==
    IF lo >= hi THEN lo
    ELSE LET mid == (lo + hi + 1) \div 2
         IN  IF mid * mid <= n THEN SqrtSearch(n, mid, hi)
             ELSE SqrtSearch(n, lo, mid - 1)

\* The integer part of n ** 0.5 (n < 2^30).
Sqrt(n) == SqrtSearch(n, 0, 32767)

----------------------------------------------------------------------------
(* US_CITIES, lines 133-154, in dict order; lat and lng in hundredths of a *)
(* degree (the fourth decimal rounded away).                               *)

US_CITIES == <<
    [name |-> "New York, NY",      lat |-> 4071, lng |-> -7401,  state |-> "NY"],
    [name |-> "Los Angeles, CA",   lat |-> 3405, lng |-> -11824, state |-> "CA"],
    [name |-> "Chicago, IL",       lat |-> 4188, lng |-> -8763,  state |-> "IL"],
    [name |-> "Houston, TX",       lat |-> 2976, lng |-> -9537,  state |-> "TX"],
    [name |-> "Phoenix, AZ",       lat |-> 3345, lng |-> -11207, state |-> "AZ"],
    [name |-> "Philadelphia, PA",  lat |-> 3995, lng |-> -7517,  state |-> "PA"],
    [name |-> "San Antonio, TX",   lat |-> 2942, lng |-> -9849,  state |-> "TX"],
    [name |-> "San Diego, CA",     lat |-> 3272, lng |-> -11716, state |-> "CA"],
    [name |-> "Dallas, TX",        lat |-> 3278, lng |-> -9680,  state |-> "TX"],
    [name |-> "San Jose, CA",      lat |-> 3734, lng |-> -12189, state |-> "CA"],
    [name |-> "Denver, CO",        lat |-> 3974, lng |-> -10499, state |-> "CO"],
    [name |-> "Las Vegas, NV",     lat |-> 3617, lng |-> -11514, state |-> "NV"],
    [name |-> "Oklahoma City, OK", lat |-> 3547, lng |-> -9752,  state |-> "OK"],
    [name |-> "Albuquerque, NM",   lat |-> 3508, lng |-> -10665, state |-> "NM"],
    [name |-> "Kansas City, MO",   lat |-> 3910, lng |-> -9458,  state |-> "MO"],
    [name |-> "St. Louis, MO",     lat |-> 3863, lng |-> -9020,  state |-> "MO"],
    [name |-> "Nashville, TN",     lat |-> 3616, lng |-> -8678,  state |-> "TN"],
    [name |-> "Atlanta, GA",       lat |-> 3375, lng |-> -8439,  state |-> "GA"],
    [name |-> "Indianapolis, IN",  lat |-> 3977, lng |-> -8616,  state |-> "IN"],
    [name |-> "Columbus, OH",      lat |-> 3996, lng |-> -8300,  state |-> "OH"] >>

----------------------------------------------------------------------------
(* find_intermediate_cities, lines 156-200 *)

\* Lines 161-166 and 173-174: the city lies in the endpoints' bounding box widened by
\* 30% of its extent on each axis (both sides of each comparison times 10).
InCorridor(source_lat, source_lng, dest_lat, dest_lng, lat, lng) ==
    LET min_lat == Min(source_lat, dest_lat)
        max_lat == Max(source_lat, dest_lat)
        min_lng == Min(source_lng, dest_lng)
        max_lng == Max(source_lng, dest_lng)
        lat_margin10 == (max_lat - min_lat) * 3
        lng_margin10 == (max_lng - min_lng) * 3
    IN  /\ 10 * min_lat - lat_margin10 <= 10 * lat
        /\ 10 * lat <= 10 * max_lat + lat_margin10
        /\ 10 * min_lng - lng_margin10 <= 10 * lng
        /\ 10 * lng <= 10 * max_lng + lng_margin10

\* Lines 178-179: the dividend of route_distance.
RouteNum(source_lat, source_lng, dest_lat, dest_lng, lat, lng) ==
    (dest_lat - source_lat) * (lat - source_lat)
        + (dest_lng - source_lng) * (lng - source_lng)

\* Line 180: the divisor of route_distance.
RouteDen(source_lat, source_lng, dest_lat, dest_lng) ==
    (dest_lat - source_lat) * (dest_lat - source_lat)
        + (dest_lng - source_lng) * (dest_lng - source_lng)

\* Line 182, for route_distance = num / den with den > 0.
NotTooClose(num, den) == den <= 10 * num /\ 10 * num <= 9 * den

\* Lines 169-189: the cities appended, in catalog order.  route_position is kept as
\* the pair (tnum, tden).
RECURSIVE Candidates(_, _, _, _, _)
Candidates(source_lat, source_lng, dest_lat, dest_lng, i) ==
    IF i > Len(US_CITIES) THEN << >>
    ELSE LET c    == US_CITIES[i]
             num  == RouteNum(source_lat, source_lng, dest_lat, dest_lng, c.lat, c.lng)
             den  == RouteDen(source_lat, source_lng, dest_lat, dest_lng)
             rest == Candidates(source_lat, source_lng, dest_lat, dest_lng, i + 1)
         IN  IF /\ InCorridor(source_lat, source_lng, dest_lat, dest_lng, c.lat, c.lng)
                /\ NotTooClose(num, den)
             THEN <<[name |-> c.name, lat |-> c.lat, lng |-> c.lng, state |-> c.state,
                     tnum |-> num, tden |-> den]>> \o rest
             ELSE rest

\* Line 180 divides by zero for the first catalog city in the corridor when the two
\* endpoints coincide: a float division by 0.0 raises ZeroDivisionError.
DividesByZero(source_lat, source_lng, dest_lat, dest_lng) ==
    /\ RouteDen(source_lat, source_lng, dest_lat, dest_lng) = 0
    /\ \E i \in 1..Len(US_CITIES) :
          InCorridor(source_lat, source_lng, dest_lat, dest_lng,
                     US_CITIES[i].lat, US_CITIES[i].lng)

\* Line 192: list.sort by route_position, stable.  All positions of one call share
\* the divisor, so they compare as their dividends.
RECURSIVE InsertByPosition(_, _)
InsertByPosition(sorted, c) ==
    IF sorted = << >> THEN <<c>>
    ELSE IF sorted[Len(sorted)].tnum <= c.tnum THEN Append(sorted, c)
    ELSE Append(InsertByPosition(SubSeq(sorted, 1, Len(sorted) - 1), c),
                sorted[Len(sorted)])

RECURSIVE SortUpTo(_, _)
SortUpTo(cs, n) ==
    IF n = 0 THEN << >> ELSE InsertByPosition(SortUpTo(cs, n - 1), cs[n])

SortByPosition(cs) == SortUpTo(cs, Len(cs))

\* A faulty variant of MaxCities, off by one: C4 must fail with it.
MaxCitiesOneMore(route_type) ==
    IF route_type = "Fastest Route" THEN 3
    ELSE IF route_type = "Cleanest Air Route" THEN 5
    ELSE 4

\* Lines 195-200.
MaxCities(route_type) ==
    IF route_type = "Fastest Route" THEN 2
    ELSE IF route_type = "Cleanest Air Route" THEN 4
    ELSE 3

Take(s, n) == SubSeq(s, 1, Min(n, Len(s)))

find_intermediate_cities(source_lat, source_lng, dest_lat, dest_lng, route_type) ==
    IF DividesByZero(source_lat, source_lng, dest_lat, dest_lng)
    THEN [error |-> "ZeroDivisionError", cities |-> << >>]
    ELSE [error |-> "",
          cities |-> Take(SortByPosition(
                              Candidates(source_lat, source_lng, dest_lat, dest_lng, 1)),
                          MaxCities(route_type))]

----------------------------------------------------------------------------
(* random.uniform, lines 103-107 and 239.  One request's draws come from one stream, *)
(* named by its seed; sample k of the stream takes its five draws from the   *)
(* digits of a code.  Each draw takes one of Levels evenly spaced values of  *)
(* its range, both ends included.                                            *)

Levels == 3

NumCodes == Levels * Levels * Levels * Levels * Levels

\* The streams requests draw from.  With three levels the 243 seeds give the first
\* call of a request every combination of draws.
NumSeeds == 243

Seeds == 0..(NumSeeds - 1)

\* The code of the k-th fetch_tempo_data call (k = 1, 2, ...) of a request.
CodeOf(seed, k) == (seed + (k - 1) * (Levels + 1)) % NumCodes

\* The j-th draw (j = 0..4) of a code, as a level 0..Levels-1.
Digit(code, j) ==
    IF j = 0 THEN code % Levels
    ELSE IF j = 1 THEN (code \div Levels) % Levels
    ELSE IF j = 2 THEN (code \div (Levels * Levels)) % Levels
    ELSE IF j = 3 THEN (code \div (Levels * Levels * Levels)) % Levels
    ELSE (code \div (Levels * Levels * Levels * Levels)) % Levels

\* random.uniform(lo, hi) at a level.
Uniform(lo, hi, level) == lo + ((hi - lo) * level) \div (Levels - 1)

----------------------------------------------------------------------------
(* fetch_tempo_data, lines 93-130 *)

\* Lines 123-130: the reading returned when the try block faults.
FallbackReading ==
    [no2 |-> 1250, o3 |-> 3200, so2 |-> 550, co2 |-> 41500, methane |-> 1850,
     aqi |-> 650]

\* Line 110, from no2, o3, so2 in thousandths to an aqi in ten-thousandths.
AqiOf(base_no2, base_o3, base_so2) ==
    Min(5000000, Max(0, 25 * base_no2 + 12 * base_o3 + 50 * base_so2))

\* Line 103.
BaseNo2(lat, code) ==
    Max(5000, 15000 + Uniform(-8000, 12000, Digit(code, 0)) + Abs(lat - 4000) * 5)

\* Line 104.
BaseO3(code) == Max(10000, 35000 + Uniform(-15000, 25000, Digit(code, 1)))

\* Line 105.
BaseSo2(code) == Max(1000, 8000 + Uniform(-4000, 8000, Digit(code, 2)))

\* Line 106.
BaseCo2(code) == Max(380000, 410000 + Uniform(-20000, 30000, Digit(code, 3)))

\* Line 107, in ten-thousandths.
BaseMethane(code) == Max(18000, 19000 + Uniform(-2000, 3000, Digit(code, 4)))

\* Lines 112-119.
NormalReading(lat, code) ==
    [no2     |-> Round(BaseNo2(lat, code), 10),
     o3      |-> Round(BaseO3(code), 10),
     so2     |-> Round(BaseSo2(code), 10),
     co2     |-> Round(BaseCo2(code), 10),
     methane |-> Round(BaseMethane(code), 10),
     aqi     |-> Round(AqiOf(BaseNo2(lat, code), BaseO3(code), BaseSo2(code)), 1000)]

\* The whole function: the try block, or the except branch when it faults.
fetch_tempo_data(lat, lng, code, fault) ==
    IF fault THEN FallbackReading ELSE NormalReading(lat, code)

\* The readings of one request: after `done` earlier calls, call done + k is made at
\* pts[k]; call faultAt (if any) faults inside the try block.
ReadingsFrom(pts, seed, faultAt, done) ==
    [k \in 1..Len(pts) |->
        fetch_tempo_data(pts[k].lat, pts[k].lng, CodeOf(seed, done + k),
                         done + k = faultAt)]

Readings(pts, seed, faultAt) == ReadingsFrom(pts, seed, faultAt, 0)

\* How many calls of a request may be the one that faults (0: none does).
MaxFaultAt == 2

FaultChoices == 0..MaxFaultAt

----------------------------------------------------------------------------
(* The coordinates requests are made with, in hundredths of a degree.  The  *)
(* first five are catalog cities; Boston, Miami and Seattle are not.        *)

Points == {
    [lat |-> 4071, lng |-> -7401],    \* New York, NY
    [lat |-> 3405, lng |-> -11824],   \* Los Angeles, CA
    [lat |-> 3995, lng |-> -7517],    \* Philadelphia, PA
    [lat |-> 4188, lng |-> -8763],    \* Chicago, IL
    [lat |-> 3278, lng |-> -9680],    \* Dallas, TX
    [lat |-> 4236, lng |-> -7106],    \* Boston, MA
    [lat |-> 2576, lng |-> -8019],    \* Miami, FL
    [lat |-> 4761, lng |-> -12233] }  \* Seattle, WA

RouteTypes == {"Fastest Route", "Cleanest Air Route", "Balanced Route", "Scenic Route"}

NoResp == [op |-> "", status |-> 0, detail |-> "", req |-> << >>, body |-> << >>]

\* The caller takes the outcome of its call; it makes its next call after that.
Receive ==
    /\ resp # NoResp
    /\ resp' = NoResp
    /\ sampled' = << >>
    /\ UNCHANGED <<store, allowExtra, deleted>>

----------------------------------------------------------------------------
(* find_intermediate_cities applied to a source, a destination and a type *)

FindCities(src, dst, route_type) ==
    LET r == find_intermediate_cities(src.lat, src.lng, dst.lat, dst.lng, route_type)
    IN  /\ resp = NoResp
        /\ resp' = [op |-> "find_intermediate_cities", status |-> 0,
                    detail |-> r.error,
                    req |-> [source |-> src, destination |-> dst,
                             route_type |-> route_type],
                    body |-> r.cities]
        /\ UNCHANGED <<store, sampled, allowExtra, deleted>>

InitCities ==
    /\ store = << >>
    /\ resp = NoResp
    /\ sampled = << >>
    /\ allowExtra = FALSE
    /\ deleted = {}

NextCities ==
    \/ \E src \in Points, dst \in Points, route_type \in RouteTypes :
          FindCities(src, dst, route_type)
    \/ Receive

SpecCities == InitCities /\ [][NextCities]_vars

----------------------------------------------------------------------------
(* Claims about find_intermediate_cities *)

IsFind == resp.op = "find_intermediate_cities"

\* The catalog cities that qualify for a request: inside the endpoints' bounding box
\* widened by 30% per axis, with 0.1 <= t <= 0.9 for
\* t = dot(dest - source, city - source) / |dest - source|^2.
TNum(q, c) ==
    (q.destination.lat - q.source.lat) * (c.lat - q.source.lat)
        + (q.destination.lng - q.source.lng) * (c.lng - q.source.lng)

TDen(q) ==
    (q.destination.lat - q.source.lat) * (q.destination.lat - q.source.lat)
        + (q.destination.lng - q.source.lng) * (q.destination.lng - q.source.lng)

InBox(q, c) ==
    LET lo_lat == Min(q.source.lat, q.destination.lat)
        hi_lat == Max(q.source.lat, q.destination.lat)
        lo_lng == Min(q.source.lng, q.destination.lng)
        hi_lng == Max(q.source.lng, q.destination.lng)
    IN  /\ 10 * lo_lat - 3 * (hi_lat - lo_lat) <= 10 * c.lat
        /\ 10 * c.lat <= 10 * hi_lat + 3 * (hi_lat - lo_lat)
        /\ 10 * lo_lng - 3 * (hi_lng - lo_lng) <= 10 * c.lng
        /\ 10 * c.lng <= 10 * hi_lng + 3 * (hi_lng - lo_lng)

TInBand(q, c) == TDen(q) <= 10 * TNum(q, c) /\ 10 * TNum(q, c) <= 9 * TDen(q)

Qualifying(q) ==
    {i \in 1..Len(US_CITIES) : InBox(q, US_CITIES[i]) /\ TInBand(q, US_CITIES[i])}

Cap(route_type) ==
    CASE route_type = "Fastest Route" -> 2
      [] route_type = "Cleanest Air Route" -> 4
      [] OTHER -> 3

CatalogIndex(name) == CHOOSE i \in 1..Len(US_CITIES) : US_CITIES[i].name = name

\* C3 (as claimed): with source equal to destination, at a catalog city or not,
\* find_intermediate_cities returns the empty list and raises nothing.
C3_SamePointReturnsEmpty ==
    (IsFind /\ resp.req.source = resp.req.destination)
        => (resp.detail = "" /\ resp.body = << >>)

\* C4: with source different from destination the call returns at most 2 / 4 / 3
\* cities (Fastest / Cleanest Air / any other type), each a catalog city inside the
\* widened bounding box with 0.1 <= t <= 0.9, in ascending order of t, and they are
\* the lowest-t qualifying cities: as many as the cap allows, no qualifying city
\* left out lying before a returned one.
C4_CorridorSelection ==
    (IsFind /\ resp.req.source # resp.req.destination) =>
        LET q   == resp.req
            out == resp.body
            idx == [k \in 1..Len(out) |-> CatalogIndex(out[k].name)]
        IN  /\ resp.detail = ""
            /\ Len(out) = Min(Cap(q.route_type), Cardinality(Qualifying(q)))
            /\ \A k \in 1..Len(out) :
                  /\ idx[k] \in Qualifying(q)
                  /\ out[k].lat = US_CITIES[idx[k]].lat
                  /\ out[k].lng = US_CITIES[idx[k]].lng
                  /\ out[k].tnum = TNum(q, out[k])
                  /\ out[k].tden = TDen(q)
            /\ \A j, k \in 1..Len(out) : j < k =>
                  (idx[j] # idx[k] /\ TNum(q, out[j]) <= TNum(q, out[k]))
            /\ \A i \in Qualifying(q) :
                  (\A k \in 1..Len(out) : idx[k] # i) =>
                      \A k \in 1..Len(out) : TNum(q, out[k]) <= TNum(q, US_CITIES[i])

\* A Cleanest Air request with more than four qualifying cities, answered with four.
C4_Witness ==
    /\ IsFind
    /\ resp.req.source # resp.req.destination
    /\ resp.req.route_type = "Cleanest Air Route"
    /\ Cardinality(Qualifying(resp.req)) > 4
    /\ Len(resp.body) = 4
    /\ resp.body[1].tnum < resp.body[4].tnum

----------------------------------------------------------------------------
(* str.split(',') and float(), line 391.  A string is a tuple of one-character *)
(* strings.  float() is modelled on decimal spellings: optional blanks around, *)
(* an optional sign, digits with at most one point and at least one digit.     *)
(* Any other character makes it raise ValueError (the requests below use no    *)
(* exponent, underscore, inf or nan spelling).                                 *)

DigitChars == {"0", "1", "2", "3", "4", "5", "6", "7", "8", "9"}

DigitVal(c) ==
    CASE c = "0" -> 0 [] c = "1" -> 1 [] c = "2" -> 2 [] c = "3" -> 3 [] c = "4" -> 4
      [] c = "5" -> 5 [] c = "6" -> 6 [] c = "7" -> 7 [] c = "8" -> 8 [] c = "9" -> 9

\* bounds.split(','): the pieces between the commas, empty pieces kept.
RECURSIVE SplitFrom(_, _, _)
SplitFrom(s, i, cur) ==
    IF i > Len(s) THEN <<cur>>
    ELSE IF s[i] = "," THEN <<cur>> \o SplitFrom(s, i + 1, << >>)
    ELSE SplitFrom(s, i + 1, Append(cur, s[i]))

Split(s) == SplitFrom(s, 1, << >>)

RECURSIVE StripLeft(_)
StripLeft(t) == IF t # << >> /\ Head(t) = " " THEN StripLeft(Tail(t)) ELSE t

RECURSIVE StripRight(_)
StripRight(t) ==
    IF t # << >> /\ t[Len(t)] = " " THEN StripRight(SubSeq(t, 1, Len(t) - 1)) ELSE t

Strip(t) == StripRight(StripLeft(t))

Unsigned(t) == IF t # << >> /\ Head(t) \in {"+", "-"} THEN Tail(t) ELSE t

IsNegative(t) == t # << >> /\ Head(t) = "-"

\* Whether float(tok) returns (TRUE) or raises ValueError (FALSE).
IsFloat(tok) ==
    LET u == Unsigned(Strip(tok))
    IN  /\ \A i \in 1..Len(u) : u[i] \in DigitChars \cup {"."}
        /\ Cardinality({i \in 1..Len(u) : u[i] = "."}) <= 1
        /\ \E i \in 1..Len(u) : u[i] \in DigitChars

RECURSIVE DigitsValue(_)
DigitsValue(d) ==
    IF d = << >> THEN 0
    ELSE 10 * DigitsValue(SubSeq(d, 1, Len(d) - 1)) + DigitVal(d[Len(d)])

\* float(tok), in hundredths (decimals after the second are dropped).
FloatOf(tok) ==
    LET t    == Strip(tok)
        u    == Unsigned(t)
        dots == {i \in 1..Len(u) : u[i] = "."}
        dot  == IF dots = {} THEN Len(u) + 1 ELSE CHOOSE i \in dots : TRUE
        ip   == SubSeq(u, 1, dot - 1)
        fp   == SubSeq(u, dot + 1, Len(u)) \o <<"0", "0">>
        mag  == 100 * DigitsValue(ip) + DigitsValue(SubSeq(fp, 1, 2))
    IN  IF IsNegative(t) THEN 0 - mag ELSE mag

----------------------------------------------------------------------------
(* get_current_pollution, lines 371-381 *)

get_current_pollution(lat, lng, seed, faultAt) ==
    LET rs == Readings(<<[lat |-> lat, lng |-> lng]>>, seed, faultAt)
    IN  /\ resp = NoResp
        /\ resp' = [op |-> "get_current_pollution", status |-> 200, detail |-> "",
                    req |-> [lat |-> lat, lng |-> lng], body |-> rs[1]]
        /\ sampled' = rs
        /\ UNCHANGED <<store, allowExtra, deleted>>

----------------------------------------------------------------------------
(* get_pollution_heatmap, lines 383-420 *)

grid_size == 10

\* Lines 398-401: the grid points in loop order, i outer and j inner.
GridPoint(lat1, lng1, lat2, lng2, k) ==
    LET i == (k - 1) \div grid_size
        j == (k - 1) % grid_size
    IN  [lat |-> lat1 + ((lat2 - lat1) * i) \div (grid_size - 1),
         lng |-> lng1 + ((lng2 - lng1) * j) \div (grid_size - 1)]

GridPoints(lat1, lng1, lat2, lng2) ==
    [k \in 1..(grid_size * grid_size) |-> GridPoint(lat1, lng1, lat2, lng2, k)]

\* Line 407: aqi / 100.  An aqi in tenths, divided by 100, is that many thousandths.
Intensity(aqi) == aqi

\* Lines 404-415.
HeatmapEntry(pt, pollution_data) ==
    [lat |-> pt.lat, lng |-> pt.lng,
     intensity |-> Intensity(pollution_data.aqi),
     pollutants |-> [no2 |-> pollution_data.no2, o3 |-> pollution_data.o3,
                     so2 |-> pollution_data.so2, co2 |-> pollution_data.co2,
                     methane |-> pollution_data.methane]]

\* Lines 391-392: the list comprehension raises ValueError on a piece that is no
\* number, the unpacking on a list of any length but four.
BoundsRaise(bounds) ==
    LET pieces == Split(bounds)
    IN  \/ \E i \in 1..Len(pieces) : ~IsFloat(pieces[i])
        \/ Len(pieces) # 4

\* Line 391-392 when nothing raises: lat1, lng1, lat2, lng2.
ParseBounds(bounds) ==
    LET pieces == Split(bounds)
    IN  [i \in 1..4 |-> FloatOf(pieces[i])]

get_pollution_heatmap(bounds, seed, faultAt) ==
    /\ resp = NoResp
    /\ IF BoundsRaise(bounds)
       THEN /\ resp' = [op |-> "get_pollution_heatmap", status |-> 500,
                        detail |-> "Error generating heatmap data",
                        req |-> [bounds |-> bounds], body |-> << >>]
            /\ sampled' = << >>
       ELSE \E coords \in {ParseBounds(bounds)} :
            \E pts \in {GridPoints(coords[1], coords[2], coords[3], coords[4])} :
            \E rs \in {Readings(pts, seed, faultAt)} :
                /\ resp' = [op |-> "get_pollution_heatmap", status |-> 200,
                            detail |-> "",
                            req |-> [bounds |-> bounds],
                            body |-> [k \in 1..Len(pts) |-> HeatmapEntry(pts[k], rs[k])]]
                /\ sampled' = rs
    /\ UNCHANGED <<store, allowExtra, deleted>>

\* The bounds strings requests are made with:
\*   "40,-74,41,-73"
\*   "40.5,-74.25,39.6,-73"
\*   " 34.05,-118.24,47.61,-122.33"
\*   "55,-100,65.5,-90."
\*   "40,-74,41"
\*   "40,-74,41,-73,5"
\*   "40,-74,x,-73"
\*   ""
\*   "40,-74,41,"
\*   "40,-74,41,-"
\*   "40.5.1,-74,41,-73"
BoundsInputs == {
    <<"4", "0", ",", "-", "7", "4", ",", "4", "1", ",", "-", "7", "3">>,
    <<"4", "0", ".", "5", ",", "-", "7", "4", ".", "2", "5", ",", "3", "9", ".", "6", ",", "-", "7", "3">>,
    <<" ", "3", "4", ".", "0", "5", ",", "-", "1", "1", "8", ".", "2", "4", ",", "4", "7", ".", "6", "1", ",", "-", "1", "2", "2", ".", "3", "3">>,
    <<"5", "5", ",", "-", "1", "0", "0", ",", "6", "5", ".", "5", ",", "-", "9", "0", ".">>,
    <<"4", "0", ",", "-", "7", "4", ",", "4", "1">>,
    <<"4", "0", ",", "-", "7", "4", ",", "4", "1", ",", "-", "7", "3", ",", "5">>,
    <<"4", "0", ",", "-", "7", "4", ",", "x", ",", "-", "7", "3">>,
    << >>,
    <<"4", "0", ",", "-", "7", "4", ",", "4", "1", ",">>,
    <<"4", "0", ",", "-", "7", "4", ",", "4", "1", ",", "-">>,
    <<"4", "0", ".", "5", ".", "1", ",", "-", "7", "4", ",", "4", "1", ",", "-", "7", "3">> }

\* The latitudes and longitudes of the pollution lookups, besides those of Points:
\* the equator, the reference latitude of line 103 and a polar latitude.
LookupLats == {p.lat : p \in Points} \cup {0, 4000, 8950, -3387}

InitSampler ==
    /\ store = << >>
    /\ resp = NoResp
    /\ sampled = << >>
    /\ allowExtra = FALSE
    /\ deleted = {}

NextSampler ==
    \/ /\ resp = NoResp
       /\ \E lat \in LookupLats, seed \in Seeds, faultAt \in FaultChoices :
             get_current_pollution(lat, -7401, seed, faultAt)
    \/ /\ resp = NoResp
       /\ \E bounds \in BoundsInputs, seed \in Seeds, faultAt \in FaultChoices :
             get_pollution_heatmap(bounds, seed, faultAt)
    \/ Receive

SpecSampler == InitSampler /\ [][NextSampler]_vars

----------------------------------------------------------------------------
(* Claims about fetch_tempo_data and the pollution handlers *)

\* clamp(0, 500, no2*2.5 + o3*1.2 + so2*5.0) of a reading, in thousandths.
ClampedAqiOf(r) == Min(500000, Max(0, 25 * r.no2 + 12 * r.o3 + 50 * r.so2))

\* A reading respects the floors and the aqi range.
WithinFloors(r) ==
    /\ r.no2 >= 500
    /\ r.o3 >= 1000
    /\ r.so2 >= 100
    /\ r.co2 >= 38000
    /\ r.methane >= 1800
    /\ 0 <= r.aqi /\ r.aqi <= 5000

\* A reading's aqi is the clamped weighted sum of its own no2, o3 and so2, to within
\* 0.1 (the roundings of lines 113-118 move it by less than 0.0935).
AqiConsistent(r) == Abs(100 * r.aqi - ClampedAqiOf(r)) <= 100

\* C7 (as claimed): every reading fetch_tempo_data returns, from the try block or
\* from the except branch, respects the floors and has the aqi of its own pollutants.
C7_ReadingBoundsAndAqi ==
    \A k \in DOMAIN sampled : WithinFloors(sampled[k]) /\ AqiConsistent(sampled[k])

\* The part of C7 that the code keeps: every reading respects the floors, and a
\* reading of the try block has the aqi of its own pollutants.
C7_FloorsAndNormalAqi ==
    \A k \in DOMAIN sampled :
        /\ WithinFloors(sampled[k])
        /\ sampled[k] # FallbackReading => AqiConsistent(sampled[k])

IsHeatmap == resp.op = "get_pollution_heatmap"

\* A bounds string is well formed when it is exactly four comma-separated numbers.
WellFormed(bounds) ==
    /\ Len(Split(bounds)) = 4
    /\ \A i \in 1..4 : IsFloat(Split(bounds)[i])

\* C8 (as claimed): a malformed bounds string is rejected as invalid input (a 4xx
\* outcome), not with the handler's generic failure outcome, and yields no grid.
C8_MalformedBoundsRejected ==
    (IsHeatmap /\ ~WellFormed(resp.req.bounds)) =>
        /\ resp.status \in 400..499
        /\ <<resp.status, resp.detail>> # <<500, "Error generating heatmap data">>
        /\ resp.body = << >>

\* C9 (as claimed): a well-formed bounds string yields 100 points, the first at
\* (lat1, lng1) and the last at (lat2, lng2), each with intensity = its sampled
\* aqi / 100, and every intensity lies in [0, 1].
C9_HeatmapGridNormalized ==
    (IsHeatmap /\ WellFormed(resp.req.bounds)) =>
        LET c == ParseBounds(resp.req.bounds)
        IN  /\ resp.status = 200
            /\ Len(resp.body) = 100
            /\ resp.body[1].lat = c[1] /\ resp.body[1].lng = c[2]
            /\ resp.body[100].lat = c[3] /\ resp.body[100].lng = c[4]
            /\ \A k \in 1..100 :
                  /\ resp.body[k].intensity = sampled[k].aqi
                  /\ 0 <= resp.body[k].intensity
                  /\ resp.body[k].intensity <= 1000

\* What remains of C9 without the range: 100 points, corners, intensity = aqi / 100.
C9_HeatmapGridShape ==
    (IsHeatmap /\ WellFormed(resp.req.bounds)) =>
        LET c == ParseBounds(resp.req.bounds)
        IN  /\ resp.status = 200
            /\ Len(resp.body) = 100
            /\ resp.body[1].lat = c[1] /\ resp.body[1].lng = c[2]
            /\ resp.body[100].lat = c[3] /\ resp.body[100].lng = c[4]
            /\ \A k \in 1..100 : resp.body[k].intensity = sampled[k].aqi

----------------------------------------------------------------------------
(* The saved_routes collection and its handlers, lines 422-495.  A document *)
(* keeps the SavedRoute fields the handlers read: id, user_id, route_name,  *)
(* source and alerts_enabled (destination, selected_route and created_at    *)
(* are stored and returned untouched).  The collection has no unique index  *)
(* on id, which the client may choose: two documents may share an id.       *)

\* cursor.to_list(100), lines 441 and 471.
ListLimit == 100

\* Cursor.to_list(length): the first `length` documents of a cursor.
to_list(cursor, length) == Take(cursor, length)

\* Line 441: find({"user_id": user_id}).to_list(100), in insertion order.
FindByUser(docs, user_id) ==
    to_list(SelectSeq(docs, LAMBDA d : d.user_id = user_id), ListLimit)

\* Lines 468-471: find({"user_id": user_id, "alerts_enabled": True}).to_list(100).
FindAlertEnabled(docs, user_id) ==
    to_list(SelectSeq(docs, LAMBDA d : d.user_id = user_id /\ d.alerts_enabled), ListLimit)

\* delete_one({"id": route_id}): the collection without its first matching document.
RECURSIVE DeleteOne(_, _)
DeleteOne(docs, route_id) ==
    IF docs = << >> THEN << >>
    ELSE IF Head(docs).id = route_id THEN Tail(docs)
    ELSE <<Head(docs)>> \o DeleteOne(Tail(docs), route_id)

\* result.deleted_count, line 454.
DeletedCount(docs, route_id) ==
    IF \E i \in 1..Len(docs) : docs[i].id = route_id THEN 1 ELSE 0

\* Lines 422-433.
save_route(saved_route) ==
    /\ resp = NoResp
    /\ store' = Append(store, saved_route)
    /\ resp' = [op |-> "save_route", status |-> 200, detail |-> "",
                req |-> saved_route, body |-> saved_route]
    /\ deleted' = deleted \ {saved_route.id}
    /\ UNCHANGED <<sampled, allowExtra>>

\* Lines 435-445.
get_saved_routes(user_id) ==
    /\ resp = NoResp
    /\ resp' = [op |-> "get_saved_routes", status |-> 200, detail |-> "",
                req |-> [user_id |-> user_id],
                body |-> FindByUser(store, user_id)]
    /\ UNCHANGED <<store, sampled, allowExtra, deleted>>

\* Lines 447-459.  The HTTPException(404) of line 455 is raised inside the try block
\* and HTTPException is an Exception: line 457 catches it and line 459 raises the
\* 500 in its place.
DeleteOutcome(deleted_count) ==
    IF deleted_count = 0
    THEN [status |-> 500, detail |-> "Error deleting route"]
    ELSE [status |-> 200, detail |-> "Route deleted successfully"]

delete_saved_route(route_id) ==
    /\ resp = NoResp
    /\ store' = DeleteOne(store, route_id)
    /\ resp' = [op |-> "delete_saved_route",
                status |-> DeleteOutcome(DeletedCount(store, route_id)).status,
                detail |-> DeleteOutcome(DeletedCount(store, route_id)).detail,
                req |-> [route_id |-> route_id,
                         deleted_count |-> DeletedCount(store, route_id)],
                body |-> << >>]
    /\ deleted' = IF DeletedCount(store, route_id) = 1
                  THEN deleted \cup {route_id} ELSE deleted
    /\ UNCHANGED <<sampled, allowExtra>>

\* Line 482: whether a reading raises an alert.
RaisesAlert(aqi) == aqi # 0 /\ aqi > 1000

\* A faulty variant of Severity, 'high' up to 150 included: C6 must fail with it.
SeverityLoose(aqi) == IF aqi <= 1500 THEN "high" ELSE "extreme"

\* Line 483.
Severity(aqi) == IF aqi < 1500 THEN "high" ELSE "extreme"

\* Lines 474-490: the alerts of the routes found, in order.  The message of line 487
\* is kept as its two embedded values, the route's name and the aqi.
RECURSIVE AlertsFrom(_, _, _)
AlertsFrom(saved_routes, readings, k) ==
    IF k > Len(saved_routes) THEN << >>
    ELSE IF RaisesAlert(readings[k].aqi)
    THEN <<[route_id |-> saved_routes[k].id, alert_type |-> "high_pollution",
            route_name |-> saved_routes[k].route_name, aqi |-> readings[k].aqi,
            severity |-> Severity(readings[k].aqi)]>>
         \o AlertsFrom(saved_routes, readings, k + 1)
    ELSE AlertsFrom(saved_routes, readings, k + 1)

\* Lines 461-495.
get_pollution_alerts(user_id, seed, faultAt) ==
    /\ resp = NoResp
    /\ \E saved_routes \in {FindAlertEnabled(store, user_id)} :
       \E rs \in {Readings([k \in 1..Len(saved_routes) |-> saved_routes[k].source],
                           seed, faultAt)} :
          /\ resp' = [op |-> "get_pollution_alerts", status |-> 200, detail |-> "",
                      req |-> [user_id |-> user_id],
                      body |-> AlertsFrom(saved_routes, rs, 1)]
          /\ sampled' = rs
    /\ UNCHANGED <<store, allowExtra, deleted>>

\* The SavedRoute documents clients post.  r1 is used by both users.
BulkRoute ==
    [id |-> "r1", user_id |-> "u1", route_name |-> "Commute",
     source |-> [lat |-> 4071, lng |-> -7401], alerts_enabled |-> TRUE]

RouteInputs == {
    BulkRoute,
    [id |-> "r2", user_id |-> "u1", route_name |-> "Weekend",
     source |-> [lat |-> 4071, lng |-> -7401], alerts_enabled |-> FALSE],
    [id |-> "r1", user_id |-> "u2", route_name |-> "Harbor",
     source |-> [lat |-> 4761, lng |-> -12233], alerts_enabled |-> TRUE],
    [id |-> "r3", user_id |-> "u2", route_name |-> "Prairie",
     source |-> [lat |-> 4681, lng |-> -10078], alerts_enabled |-> TRUE] }

\* The ids delete requests are made with; no document has the id r9.
RouteIds == {"r1", "r2", "r9"}

UserIds == {"u1", "u2"}

\* The streams the alert requests draw from.
AlertSeeds == {0, 9, 13, 26}

\* The call of an alert request that faults inside fetch_tempo_data (0: none does).
AlertFaults == {0, 1}

\* The collection holds at most MaxStore documents; the first VarietyLen saves may
\* post any document of RouteInputs, later ones post BulkRoute.
MaxStore == 101

VarietyLen == 2

InitStore ==
    /\ store = << >>
    /\ resp = NoResp
    /\ sampled = << >>
    /\ allowExtra = FALSE
    /\ deleted = {}

NextStore ==
    \/ \E saved_route \in RouteInputs :
          /\ Len(store) < MaxStore
          /\ (Len(store) < VarietyLen \/ saved_route = BulkRoute)
          /\ save_route(saved_route)
    \/ \E user_id \in UserIds : get_saved_routes(user_id)
    \/ \E route_id \in RouteIds : delete_saved_route(route_id)
    \/ /\ resp = NoResp
       /\ \E user_id \in UserIds, seed \in AlertSeeds, faultAt \in AlertFaults :
             get_pollution_alerts(user_id, seed, faultAt)
    \/ Receive

SpecStore == InitStore /\ [][NextStore]_vars

----------------------------------------------------------------------------
(* Claims about the saved_routes handlers *)

IsDelete == resp.op = "delete_saved_route"

\* C1 (as claimed): deleting an id that matches no stored route ends in the
\* not-found outcome, 404 'Route not found', which is neither the generic failure
\* outcome 500 'Error deleting route' nor the success response.
C1_DeleteMissingIsNotFound ==
    (IsDelete /\ resp.req.deleted_count = 0) =>
        /\ resp.status = 404
        /\ resp.detail = "Route not found"
        /\ <<resp.status, resp.detail>> # <<500, "Error deleting route">>

\* The part of C1 that the code keeps: such a delete never answers with the success
\* response.
C1_DeleteMissingNeverSucceeds ==
    (IsDelete /\ resp.req.deleted_count = 0) => resp.status # 200

\* ... and it leaves the collection as it was.
C1_DeleteMissingKeepsStore ==
    [][(resp = NoResp /\ resp'.op = "delete_saved_route"
            /\ resp'.req.deleted_count = 0) => store' = store]_vars

IsAlerts == resp.op = "get_pollution_alerts"

\* The stored routes of the requesting user that have alerts enabled.
AlertRoutes == SelectSeq(store, LAMBDA d : d.user_id = resp.req.user_id /\ d.alerts_enabled)

\* The alerts that a list of routes and their resampled readings call for: one per
\* route whose aqi is above 100, 'high' below 150 and 'extreme' from 150 on.
RECURSIVE ExpectedAlerts(_, _, _)
ExpectedAlerts(routes, readings, n) ==
    IF n = 0 THEN << >>
    ELSE LET before == ExpectedAlerts(routes, readings, n - 1)
             aqi    == readings[n].aqi
         IN  IF aqi <= 1000 THEN before
             ELSE Append(before,
                         [route_id |-> routes[n].id,
                          severity |-> IF aqi >= 1500 THEN "extreme" ELSE "high"])

AlertsGiven == [j \in 1..Len(resp.body) |->
                   [route_id |-> resp.body[j].route_id, severity |-> resp.body[j].severity]]

\* C6 (as claimed): every stored route of the user with alerts enabled is resampled
\* at its source, and the alerts are exactly those the readings call for.
C6_AlertPerHotRoute ==
    IsAlerts =>
        /\ Len(sampled) = Len(AlertRoutes)
        /\ AlertsGiven = ExpectedAlerts(AlertRoutes, sampled, Len(AlertRoutes))

\* C6 (amended): the same, of the first 100 such routes in insertion order; routes
\* after the hundredth are neither resampled nor alerted on.
C6_AlertPerHotRouteOfFirst100 ==
    IsAlerts =>
        LET scanned == SubSeq(AlertRoutes, 1, Min(100, Len(AlertRoutes)))
        IN  /\ Len(sampled) = Len(scanned)
            /\ AlertsGiven = ExpectedAlerts(scanned, sampled, Len(scanned))

\* Alerts of both severities next to a route whose aqi is at most 100.0 and raises
\* none, with another user's route and a route with alerts disabled in the collection.
C6_Witness ==
    /\ IsAlerts
    /\ \E j \in 1..Len(resp.body) : resp.body[j].severity = "high"
    /\ \E j \in 1..Len(resp.body) : resp.body[j].severity = "extreme"
    /\ \E k \in 1..Len(sampled) : sampled[k].aqi <= 1000
    /\ \E i \in 1..Len(store) : store[i].user_id # resp.req.user_id
    /\ \E i \in 1..Len(store) : ~store[i].alerts_enabled

IsSaved == resp.op = "get_saved_routes"

\* C11 (as claimed): once delete_saved_route(id) has removed a record, and until a
\* route with that id is saved again, no get_saved_routes returns a route with that
\* id and no get_pollution_alerts emits an alert whose route_id is that id.
C11_DeletedIdNotReturned ==
    /\ IsSaved => \A k \in 1..Len(resp.body) : resp.body[k].id \notin deleted
    /\ IsAlerts => \A k \in 1..Len(resp.body) : resp.body[k].route_id \notin deleted

\* The parts of C11 that the code keeps: get_saved_routes and get_pollution_alerts
\* leave the collection as it was ...
C11_ReadsKeepStore ==
    [][(resp = NoResp /\ resp'.op \in {"get_saved_routes", "get_pollution_alerts"})
           => store' = store]_vars

\* ... and a delete that finds the id removes exactly one record, the first with it.
C11_DeleteRemovesOne ==
    [][(resp = NoResp /\ resp'.op = "delete_saved_route" /\ resp'.req.deleted_count = 1)
           => /\ Len(store') = Len(store) - 1
              /\ \E i \in 1..Len(store) :
                    /\ store[i].id = resp'.req.route_id
                    /\ \A h \in 1..(i - 1) : store[h].id # resp'.req.route_id
                    /\ store' = SubSeq(store, 1, i - 1) \o SubSeq(store, i + 1, Len(store))]_vars

----------------------------------------------------------------------------
(* calculate_routes_with_pollution, lines 203-341 *)

\* Lines 210-214, the multipliers times 10 and times 100.
route_configs == <<
    [name |-> "Fastest Route",      pollution_multiplier |-> 12, distance_multiplier |-> 100],
    [name |-> "Cleanest Air Route", pollution_multiplier |-> 6,  distance_multiplier |-> 115],
    [name |-> "Balanced Route",     pollution_multiplier |-> 8,  distance_multiplier |-> 108] >>

RECURSIVE SumSeq(_)
SumSeq(xs) == IF xs = << >> THEN 0 ELSE Head(xs) + SumSeq(Tail(xs))

\* Lines 267-271: sum(p.f for p in pollution_samples if p.f); a field that is 0 is
\* skipped and adds nothing.
Sums(samples) ==
    [no2     |-> SumSeq([k \in 1..Len(samples) |-> samples[k].no2]),
     o3      |-> SumSeq([k \in 1..Len(samples) |-> samples[k].o3]),
     so2     |-> SumSeq([k \in 1..Len(samples) |-> samples[k].so2]),
     co2     |-> SumSeq([k \in 1..Len(samples) |-> samples[k].co2]),
     methane |-> SumSeq([k \in 1..Len(samples) |-> samples[k].methane])]

\* Lines 274-275.  The score is the fraction num / den, in thousandths: base_score
\* times n is 20*no2 + 15*o3 + 40*so2 + (co2 - 400 n) over the sums in hundredths.
ScoreDen(n) == 10 * n

ScoreNum(sums, n, pollution_multiplier) ==
    Min(100000 * ScoreDen(n),
        Max(0, (20 * sums.no2 + 15 * sums.o3 + 40 * sums.so2 + (sums.co2 - 40000 * n))
                   * pollution_multiplier))

\* Lines 278-283: the summed segment lengths, in hundredths of a km.  The square root
\* is taken to a whole hundredth of a degree.
RECURSIVE TotalDistance(_, _)
TotalDistance(waypoints, i) ==
    IF i >= Len(waypoints) THEN 0
    ELSE LET dlat == waypoints[i + 1].lat - waypoints[i].lat
             dlng == waypoints[i + 1].lng - waypoints[i].lng
         IN  111 * Sqrt(dlat * dlat + dlng * dlng) + TotalDistance(waypoints, i + 1)

\* Line 285: round(total_distance * distance_multiplier, 1), in tenths of a km.
Distance(waypoints, distance_multiplier) ==
    Round(TotalDistance(waypoints, 1) * distance_multiplier, 1000)

\* A faulty variant of Duration that truncates: C5 must fail with it.
DurationTruncated(distance) == (distance * 13) \div 100

\* Line 286: round(distance * 1.3, 0), in minutes.
Duration(distance) == Round(distance * 13, 100)

\* Lines 290-295.
HighTier == <<"High pollution detected: Wear N95 mask recommended",
              "Keep windows closed, use recirculated air",
              "Avoid outdoor exercise along this route",
              "Consider traveling during early morning hours">>

\* Lines 297-301.
ModerateTier == <<"Moderate pollution: Sensitive individuals take precautions",
                  "Not recommended for those with respiratory conditions",
                  "Light mask recommended for extended exposure">>

\* Lines 304-307.
GoodTier == <<"Good air quality along this route",
              "Safe for outdoor activities and exercise">>

\* A faulty variant of TierOf that tiers by the rounded score: C10 must fail with it.
TierOfRounded(num, den) ==
    IF Round(num, den * 100) > 700 THEN HighTier
    ELSE IF Round(num, den * 100) > 500 THEN ModerateTier
    ELSE GoodTier

\* Lines 289, 296 and 303: the comparisons of the unrounded pollution_score.
TierOf(num, den) ==
    IF num > 70000 * den THEN HighTier
    ELSE IF num > 50000 * den THEN ModerateTier
    ELSE GoodTier

\* Lines 310-315.
PollutantWarnings(sums, n) ==
    (IF sums.no2 > 2500 * n
     THEN <<"High NO2: Avoid rush hour traffic (7-9 AM, 5-7 PM)">> ELSE << >>)
    \o (IF sums.o3 > 6000 * n
        THEN <<"High ozone: Best to travel before 10 AM or after 7 PM">> ELSE << >>)
    \o (IF sums.so2 > 1000 * n
        THEN <<"High SO2 detected: Avoid industrial areas">> ELSE << >>)

\* Lines 317-334: the RouteOption with its waypoint_details.
RouteOption(name, config, waypoints, details, samples) ==
    LET n    == Len(samples)
        sums == Sums(samples)
        num  == ScoreNum(sums, n, config.pollution_multiplier)
        dist == Distance(waypoints, config.distance_multiplier)
    IN  [route_name       |-> name,
         distance_km      |-> dist,
         duration_minutes |-> Duration(dist),
         pollution_score  |-> Round(num, ScoreDen(n) * 100),
         waypoints        |-> waypoints,
         pollutant_levels |-> [no2 |-> Round(sums.no2, n), o3 |-> Round(sums.o3, n),
                               so2 |-> Round(sums.so2, n), co2 |-> Round(sums.co2, n),
                               methane |-> Round(sums.methane, n)],
         recommendations  |-> TierOf(num, ScoreDen(n)) \o PollutantWarnings(sums, n),
         waypoint_details |->
             [k \in 1..n |-> [name |-> details[k].name, type |-> details[k].type,
                              pollution_data |-> samples[k]]]]

\* Line 239: "Fastest" not in name.
IsFastest(name) == name = "Fastest Route"

\* Line 239: the variation added to the k-th intermediate city of a pass that follows
\* `done` fetch_tempo_data calls, in hundredths of a degree.  random is the module
\* bound by the import of line 519, which has run before any request is served.
Variation(name, seed, done, k) ==
    IF IsFastest(name) THEN 0 ELSE Uniform(-5, 5, Digit(CodeOf(seed, done + k), 4))

\* Lines 217-336, one pass of the loop, after `done` earlier fetch_tempo_data calls.
\* It raises ZeroDivisionError out of find_intermediate_cities, and ValueError at
\* line 334 when the installed BaseModel refuses the undeclared attribute
\* waypoint_details.  The samples taken before it raises are reported in readings.
BuildRoute(config, source, destination, seed, faultAt, done, extraAllowed) ==
    LET found == CHOOSE x \in {find_intermediate_cities(source.lat, source.lng,
                                   destination.lat, destination.lng, config.name)} : TRUE
        cities == found.cities
        waypoints ==
            <<[lat |-> source.lat, lng |-> source.lng]>>
            \o [k \in 1..Len(cities) |->
                   [lat |-> cities[k].lat + Variation(config.name, seed, done, k),
                    lng |-> cities[k].lng + Variation(config.name, seed, done, k)]]
            \o <<[lat |-> destination.lat, lng |-> destination.lng]>>
        details ==
            <<[name |-> "source", type |-> "source"]>>
            \o [k \in 1..Len(cities) |-> [name |-> cities[k].name, type |-> "intermediate"]]
            \o <<[name |-> "destination", type |-> "destination"]>>
    IN  IF found.error # ""
        THEN [error |-> found.error, readings |-> << >>, route |-> << >>]
        ELSE LET pts     == CHOOSE x \in {waypoints} : TRUE
                 samples == CHOOSE x \in {ReadingsFrom(pts, seed, faultAt, done)} : TRUE
             IN  IF ~extraAllowed
                 THEN [error |-> "ValueError", readings |-> samples, route |-> << >>]
                 ELSE [error |-> "", readings |-> samples,
                       route |-> RouteOption(config.name, config, pts, details, samples)]

\* Line 339: routes.sort(key=lambda r: r.pollution_score), stable.
RECURSIVE InsertByScore(_, _)
InsertByScore(sorted, r) ==
    IF sorted = << >> THEN <<r>>
    ELSE IF sorted[Len(sorted)].pollution_score <= r.pollution_score THEN Append(sorted, r)
    ELSE Append(InsertByScore(SubSeq(sorted, 1, Len(sorted) - 1), r), sorted[Len(sorted)])

RECURSIVE SortRoutesUpTo(_, _)
SortRoutesUpTo(routes, n) ==
    IF n = 0 THEN << >> ELSE InsertByScore(SortRoutesUpTo(routes, n - 1), routes[n])

\* A faulty variant of SortRoutes that leaves the order of route_configs: C2 must
\* fail with it.
SortRoutesNot(routes) == routes

SortRoutes(routes) == SortRoutesUpTo(routes, Len(routes))

\* Lines 216-336: the loop over route_configs from pass i on; it stops at the first
\* pass that raises.
RECURSIVE RoutesFrom(_, _, _, _, _, _, _)
RoutesFrom(i, source, destination, seed, faultAt, done, extraAllowed) ==
    IF i > Len(route_configs) THEN [error |-> "", readings |-> << >>, routes |-> << >>]
    ELSE LET b == CHOOSE x \in {BuildRoute(route_configs[i], source, destination, seed,
                                           faultAt, done, extraAllowed)} : TRUE
         IN  IF b.error # ""
             THEN [error |-> b.error, readings |-> b.readings, routes |-> << >>]
             ELSE LET rest == CHOOSE x \in {RoutesFrom(i + 1, source, destination, seed,
                                                       faultAt, done + Len(b.readings),
                                                       extraAllowed)} : TRUE
                  IN  [error    |-> rest.error,
                       readings |-> b.readings \o rest.readings,
                       routes   |-> IF rest.error # "" THEN << >>
                                    ELSE <<b.route>> \o rest.routes]

calculate_routes_with_pollution(source, destination, seed, faultAt, extraAllowed) ==
    LET all == CHOOSE x \in {RoutesFrom(1, source, destination, seed, faultAt, 0,
                                        extraAllowed)} : TRUE
    IN  [error |-> all.error, readings |-> all.readings, routes |-> SortRoutes(all.routes)]

\* calculate_routes, lines 352-369.
calculate_routes(source, destination, seed, faultAt) ==
    /\ resp = NoResp
    /\ \E out \in {calculate_routes_with_pollution(source, destination, seed, faultAt,
                                                   allowExtra)} :
          /\ resp' = IF out.error = ""
                     THEN [op |-> "calculate_routes", status |-> 200, detail |-> "",
                           req |-> [source |-> source, destination |-> destination],
                           body |-> [source |-> source, destination |-> destination,
                                     routes |-> out.routes]]
                     ELSE [op |-> "calculate_routes", status |-> 500,
                           detail |-> "Error calculating routes",
                           req |-> [source |-> source, destination |-> destination],
                           body |-> [raised |-> out.error]]
          /\ sampled' = out.readings
    /\ UNCHANGED <<store, allowExtra, deleted>>

\* The endpoints of the route requests: three catalog cities, and Pittsburgh and
\* Boston, which are not in the catalog.
RoutePoints == {
    [lat |-> 4071, lng |-> -7401],    \* New York, NY
    [lat |-> 3405, lng |-> -11824],   \* Los Angeles, CA
    [lat |-> 3995, lng |-> -7517],    \* Philadelphia, PA
    [lat |-> 4044, lng |-> -8000],    \* Pittsburgh, PA
    [lat |-> 4236, lng |-> -7106] }   \* Boston, MA

\* BaseModel.__setattr__ is code of the installed pydantic, not of this repository:
\* both of its possible answers to line 334 are initial states.
InitRoutes ==
    /\ store = << >>
    /\ resp = NoResp
    /\ sampled = << >>
    /\ allowExtra \in BOOLEAN
    /\ deleted = {}

NextRoutes ==
    \/ /\ resp = NoResp
       /\ \E source \in RoutePoints, destination \in RoutePoints,
             seed \in Seeds, faultAt \in FaultChoices :
             calculate_routes(source, destination, seed, faultAt)
    \/ Receive

SpecRoutes == InitRoutes /\ [][NextRoutes]_vars

----------------------------------------------------------------------------
(* Claims about calculate_routes_with_pollution *)

\* calculate_routes_with_pollution returned, and its routes are in resp.
Returned == resp.op = "calculate_routes" /\ resp.status = 200

Routes == resp.body.routes

SamplesOf(r) == [k \in 1..Len(r.waypoint_details) |-> r.waypoint_details[k].pollution_data]

SumOf(r, f) == SumSeq([k \in 1..Len(r.waypoint_details) |->
                          r.waypoint_details[k].pollution_data[f]])

\* The pollutant-specific warnings a route must carry, in the order NO2, O3, SO2.
WarningsFor(r) ==
    LET n == Len(r.waypoint_details)
    IN  (IF SumOf(r, "no2") > 2500 * n
         THEN <<"High NO2: Avoid rush hour traffic (7-9 AM, 5-7 PM)">> ELSE << >>)
        \o (IF SumOf(r, "o3") > 6000 * n
            THEN <<"High ozone: Best to travel before 10 AM or after 7 PM">> ELSE << >>)
        \o (IF SumOf(r, "so2") > 1000 * n
            THEN <<"High SO2 detected: Avoid industrial areas">> ELSE << >>)

\* The tier block of a score in tenths.
TierForScore(score10) ==
    IF score10 > 700 THEN 4 ELSE IF score10 > 500 THEN 3 ELSE 2

TierBlock(size) ==
    CASE size = 4 -> <<"High pollution detected: Wear N95 mask recommended",
                       "Keep windows closed, use recirculated air",
                       "Avoid outdoor exercise along this route",
                       "Consider traveling during early morning hours">>
      [] size = 3 -> <<"Moderate pollution: Sensitive individuals take precautions",
                       "Not recommended for those with respiratory conditions",
                       "Light mask recommended for extended exposure">>
      [] size = 2 -> <<"Good air quality along this route",
                       "Safe for outdoor activities and exercise">>

\* The score of a route before round(pollution_score, 1), as a fraction in thousandths:
\* clamp(0, 100, base_score * multiplier) from the averages of its waypoint readings.
MultiplierOf(r) ==
    CASE r.route_name = "Fastest Route" -> 12
      [] r.route_name = "Cleanest Air Route" -> 6
      [] r.route_name = "Balanced Route" -> 8

RawScoreDen(r) == 10 * Len(r.waypoint_details)

RawScoreNum(r) ==
    LET n == Len(r.waypoint_details)
        b == 20 * SumOf(r, "no2") + 15 * SumOf(r, "o3") + 40 * SumOf(r, "so2")
               + (SumOf(r, "co2") - 40000 * n)
    IN  Min(100000 * RawScoreDen(r), Max(0, b * MultiplierOf(r)))

TierForRaw(r) ==
    IF RawScoreNum(r) > 70000 * RawScoreDen(r) THEN 4
    ELSE IF RawScoreNum(r) > 50000 * RawScoreDen(r) THEN 3
    ELSE 2

====
